---- MODULE Spec2Model ----
(***************************************************************************)
(* Model of src/main.py (osu-score-history): the poll loop of main, the    *)
(* duplicate filter, flattening and CSV append of process_scores, the      *)
(* ledger rebuilt by load_existing_scores and generate_score_hash.         *)
(*                                                                         *)
(* Python values are tagged tuples: <<"int", n>>, <<"str", s>>, <<"none">>,*)
(* <<"dict", f>>, <<"list", seq>>.  A score record is a function from key  *)
(* strings to values.  The CSV file is a sequence of lines, each line a    *)
(* sequence of cell strings (csv quoting round-trips cell text, so it is   *)
(* not modelled); the empty sequence is the absent or empty file.          *)
(***************************************************************************)
EXTENDS Integers, Sequences, FiniteSets, TLC

VARIABLES
    pc,                 \* position of main: see the actions
    idx,                \* index into users of the for loop (main.py:252)
    token,              \* number of credentials obtained so far (0: none)
    scores,             \* what get_user_scores returned (<<>> for None as for [])
    file,               \* the CSV output file
    origin,             \* ghost: per file line, the record it was written from
    existing_hashes,    \* ledger fingerprints (main.py:239)
    existing_ids,       \* ledger ids (main.py:239)
    total_scores_added, \* main.py:249
    call,               \* locals of the process_scores call in progress
    summary,            \* total printed by the KeyboardInterrupt handler
    interrupted,        \* where a KeyboardInterrupt reached this run ("no": none did)
    results_with_RA,    \* ghost: fully processed fetch results of this run that held RA (up to 2)
    replay,             \* ghost: the first run's fetch responses, for a second run over the same
    loaded,             \* what load_existing_scores read: rows parsed, and whether reading failed
    run_start,          \* ghost: data rows the file held when this run began
    pure                \* a record given to the flattening step alone, and the row it made

vars == <<pc, idx, token, scores, file, origin,
          existing_hashes, existing_ids, total_scores_added, call, summary,
          interrupted, results_with_RA, replay, loaded, run_start, pure>>

----------------------------------------------------------------------------
\* Bounds of the model.
MaxBatch == 2      \* longest fetch result
MaxRows == 3       \* data rows the fetches may add up to
MaxMods == 2       \* longest mods list of a record given to the flattening step alone
MaxResponses == 2  \* fetch responses of a run that a second run is given again

----------------------------------------------------------------------------
\* Python values.
IntV(n) == <<"int", n>>
StrV(s) == <<"str", s>>
NoneV == <<"none">>
DictV(f) == <<"dict", f>>
ListV(s) == <<"list", s>>

IsDict(v) == v[1] = "dict"
IsList(v) == v[1] = "list"

\* str(v) of Python for the scalar values.
PyStr(v) ==
    CASE v[1] = "int" -> ToString(v[2])
      [] v[1] = "str" -> v[2]
      [] v[1] = "none" -> "None"

\* d.get(key, '')
Get(d, key) == IF key \in DOMAIN d THEN d[key] ELSE StrV("")

\* unique_string of generate_score_hash (main.py:76-82)
unique_string(score_data) ==
    PyStr(Get(score_data, "id")) \o PyStr(Get(score_data, "user_id"))
        \o PyStr(Get(score_data, "beatmap_id")) \o PyStr(Get(score_data, "created_at"))

\* hashlib.md5(unique_string.encode()).hexdigest(): md5 is taken to be
\* injective, so the digest is represented by the string it digests
generate_score_hash(score_data) == unique_string(score_data)

----------------------------------------------------------------------------
\* The tracked users (USER_IDS) and the records the API may return.
users == <<1, 2>>

CreatedAt == StrV("2024-01-01T00:00:00Z")

\* the record of the spec's dedup scenario
RA == [id |-> IntV(100), user_id |-> IntV(5), beatmap_id |-> IntV(9), created_at |-> CreatedAt]
\* a record with a column (accuracy) that sorts before the identity columns
RB == [id |-> IntV(101), user_id |-> IntV(5), beatmap_id |-> IntV(9), created_at |-> CreatedAt,
       accuracy |-> StrV("0.98")]
\* a record without id
RC == [user_id |-> IntV(5), beatmap_id |-> IntV(9), created_at |-> CreatedAt]
\* a record shaped like the API's: the beatmap nested, a list of mods
RD == [id |-> IntV(102), user_id |-> IntV(5), created_at |-> CreatedAt,
       beatmap |-> DictV([id |-> IntV(9)]),
       mods |-> ListV(<<DictV([acronym |-> StrV("HD")]), DictV([acronym |-> StrV("DT")])>>)]

Records == {RA, RB, RC, RD}

RECURSIVE SeqsUpTo(_, _)
SeqsUpTo(S, n) ==
    IF n = 0 THEN {<<>>}
    ELSE LET shorter == SeqsUpTo(S, n - 1)
         IN shorter \cup {Append(s, x) : s \in {t \in shorter : Len(t) = n - 1}, x \in S}

Batches == SeqsUpTo(Records, MaxBatch)

----------------------------------------------------------------------------
\* Flattening (process_scores, main.py:153-173).
RECURSIVE JoinComma(_)
JoinComma(strs) ==
    IF strs = <<>> THEN ""
    ELSE IF Len(strs) = 1 THEN strs[1]
    ELSE strs[1] \o "," \o JoinComma(Tail(strs))

\* [mod.get("acronym", "") for mod in value if isinstance(mod, dict) and "acronym" in mod]
ModAcronyms(value) ==
    LET keep == SelectSeq(value, LAMBDA mod : IsDict(mod) /\ "acronym" \in DOMAIN mod[2])
    IN [i \in 1..Len(keep) |-> PyStr(keep[i][2]["acronym"])]

FlatKeys(score) ==
    UNION { IF IsDict(score[key])
            THEN {key \o "_" \o subkey : subkey \in DOMAIN score[key][2]}
            ELSE {key} : key \in DOMAIN score }

Flatten(score) ==
    [flat_key \in FlatKeys(score) |->
        IF flat_key \in DOMAIN score /\ ~IsDict(score[flat_key])
        THEN IF flat_key = "mods" /\ IsList(score[flat_key])
             THEN StrV(JoinComma(ModAcronyms(score[flat_key][2])))
             ELSE score[flat_key]
        ELSE LET key == CHOOSE k \in DOMAIN score :
                            /\ IsDict(score[k])
                            /\ \E sk \in DOMAIN score[k][2] : flat_key = k \o "_" \o sk
                 subkey == CHOOSE sk \in DOMAIN score[key][2] : flat_key = key \o "_" \o sk
             IN score[key][2][subkey]]

----------------------------------------------------------------------------
\* CSV writing and reading.

\* sorted(all_fields): the column names the records can produce, in Python's
\* string order.
ColumnOrder ==
    <<"accuracy", "beatmap_id", "created_at", "id", "mods", "user_id">>

Sorted(fields) == SelectSeq(ColumnOrder, LAMBDA c : c \in fields)

SeqToSet(s) == {s[i] : i \in 1..Len(s)}

\* the text csv.writer writes for a cell: None as the empty string, the rest by str
CsvCell(v) == IF v = NoneV THEN "" ELSE PyStr(v)

\* DictWriter._dict_to_list: one cell per fieldname, restval '' for a missing key
DictToList(flat_score, fieldnames) ==
    [i \in 1..Len(fieldnames) |->
        IF fieldnames[i] \in DOMAIN flat_score THEN CsvCell(flat_score[fieldnames[i]]) ELSE ""]

\* a row of csv.DictReader: the cells zipped with the header; a short line
\* leaves None (restval) under the missing names, cells beyond the header go
\* under the key None, which no lookup by name reads
DictReaderRow(header, line) ==
    [name \in SeqToSet(header) |->
        LET i == CHOOSE j \in 1..Len(header) : header[j] = name
        IN IF i <= Len(line) THEN StrV(line[i]) ELSE NoneV]

FileExists(f) == f # <<>>

\* the rows csv.DictReader yields for the file
DictReaderRows(f) ==
    IF FileExists(f) THEN [i \in 1..(Len(f) - 1) |-> DictReaderRow(f[1], f[i + 1])] ELSE <<>>

\* every cell counted as a value, the empty and the missing one too
TruthyAlways(v) == TRUE

\* truth value of a cell read back
Truthy(v) == v # NoneV /\ v # StrV("")

\* load_existing_scores (main.py:87-111)
LoadedIds(f) ==
    LET rows == DictReaderRows(f)
    IN {PyStr(rows[i]["id"]) : i \in {j \in 1..Len(rows) : "id" \in DOMAIN rows[j] /\ Truthy(rows[j]["id"])}}

LoadedHashes(f) ==
    LET rows == DictReaderRows(f)
    IN {generate_score_hash(rows[i]) : i \in 1..Len(rows)}

\* the two sets after the loop of load_existing_scores has taken k rows
\* (main.py:98-105)
LoadedIdsUpTo(f, k) ==
    LET rows == DictReaderRows(f)
    IN {PyStr(rows[i]["id"]) : i \in {j \in 1..k : "id" \in DOMAIN rows[j] /\ Truthy(rows[j]["id"])}}

LoadedHashesUpTo(f, k) ==
    LET rows == DictReaderRows(f)
    IN {generate_score_hash(rows[i]) : i \in 1..k}

----------------------------------------------------------------------------
\* process_scores: the duplicate filter (main.py:128-143).

\* the filter with the hash test left out
IsNewScoreIdOnly(score, existing_ids_, existing_hashes_) ==
    PyStr(Get(score, "id")) \notin existing_ids_

\* a score passes the id test (133-134) and then the hash test (140)
IsNewScore(score, existing_ids_, existing_hashes_) ==
    /\ PyStr(Get(score, "id")) \notin existing_ids_
    /\ generate_score_hash(score) \notin existing_hashes_

NewScores(scores_data, existing_ids_, existing_hashes_) ==
    SelectSeq(scores_data, LAMBDA score : IsNewScore(score, existing_ids_, existing_hashes_))

\* the columns of the first record of the batch only, with the file's header
AllFieldsFirstOnly(new_scores, f) ==
    FlatKeys(new_scores[1]) \cup (IF FileExists(f) THEN SeqToSet(f[1]) ELSE {})

\* all_fields after main.py:150-190: the batch's columns and the file's header
AllFields(new_scores, f) ==
    UNION {FlatKeys(new_scores[i]) : i \in 1..Len(new_scores)}
        \cup (IF FileExists(f) THEN SeqToSet(f[1]) ELSE {})

\* the locals of a process_scores call; start is the file's length when the
\* call began, counted in data rows
NoCall ==
    [new_scores |-> <<>>, fieldnames |-> <<>>, new_hashes |-> {}, new_ids |-> {},
     header_due |-> FALSE, written |-> 0, added |-> 0, start |-> 0]

\* nothing read yet
NoLoad == [rows |-> 0, failed |-> FALSE]

\* no record given to the flattening step alone
NoPure == [stage |-> "none", record |-> <<>>, row |-> <<>>]

\* no responses recorded
NoReplay == [run |-> 1, log |-> <<>>, pos |-> 0, file1 |-> <<>>]

\* the ledger set replaced by the new elements instead of extended by them
LedgerReplace(existing, new) == new

\* existing_hashes.update(new_hashes), existing_ids.update(new_ids) (main.py:260-261)
LedgerUpdate(existing, new) == existing \cup new

Terminal == {"stopped", "exit1", "returned", "uncaught"}
InTry == {"fetch", "process", "write", "update", "sleep"}

RowCount(r) == Cardinality({i \in 1..Len(origin) : origin[i] = r})

----------------------------------------------------------------------------
Init ==
    /\ pc = "load"
    /\ idx = 0
    /\ token = 0
    /\ scores = <<>>
    /\ file = <<>>
    /\ origin = <<>>
    /\ existing_hashes = {}
    /\ existing_ids = {}
    /\ total_scores_added = 0
    /\ call = NoCall
    /\ summary = -1
    /\ interrupted = "no"
    /\ results_with_RA = 0
    /\ replay = NoReplay
    /\ loaded = NoLoad
    /\ run_start = 0
    /\ pure = NoPure

\* main.py:239
LoadExistingScores ==
    /\ pc = "load"
    /\ existing_hashes' = LoadedHashes(file)
    /\ existing_ids' = LoadedIds(file)
    /\ loaded' = [rows |-> Len(DictReaderRows(file)), failed |-> FALSE]
    /\ pc' = "auth"
    /\ UNCHANGED <<replay, run_start, pure, idx, token, scores, file, origin,
                   total_scores_added, call, summary, interrupted, results_with_RA>>

\* main.py:246, get_oauth_token answers 200
GetOAuthTokenOk ==
    /\ pc = "auth"
    /\ token' = token + 1
    /\ total_scores_added' = 0
    /\ idx' = 1
    /\ loaded' = NoLoad      \* the count is a local of load_existing_scores
    /\ pc' = "fetch"
    /\ UNCHANGED <<replay, run_start, pure, scores, file, origin, existing_hashes, existing_ids,
                   call, summary, interrupted, results_with_RA>>

\* a failed credential request that lets main go on to the polling loop
GetOAuthTokenFailContinues ==
    /\ pc = "auth"
    /\ idx' = 1
    /\ pc' = "fetch"
    /\ UNCHANGED <<replay, loaded, run_start, pure, token, scores, file, origin,
                   existing_hashes, existing_ids, total_scores_added, call, summary,
                   interrupted, results_with_RA>>

\* main.py:246, get_oauth_token answers another status: sys.exit(1) (main.py:39)
GetOAuthTokenFail ==
    /\ pc = "auth"
    /\ pc' = "exit1"
    /\ UNCHANGED <<replay, loaded, run_start, pure, idx, token, scores, file, origin,
                   existing_hashes, existing_ids, total_scores_added, call, summary,
                   interrupted, results_with_RA>>

\* a loop that fetches again after the last user, without the sleep
NextUserPcNoSleep == "fetch"

\* the for loop moves to the next user, or to the sleep after the last
NextUserPc == IF idx < Len(users) THEN "fetch" ELSE "sleep"
NextUserIdx == IF idx < Len(users) THEN idx + 1 ELSE idx

\* main.py:254-256, get_user_scores answers 200 with a list
FetchOkStep(batch) ==
    /\ pc = "fetch"
    /\ Len(origin) + Len(batch) <= MaxRows
    /\ scores' = batch
    /\ IF batch = <<>>
       THEN pc' = NextUserPc /\ idx' = NextUserIdx
       ELSE pc' = "process" /\ idx' = idx
    /\ UNCHANGED <<loaded, run_start, token, file, origin, existing_hashes, existing_ids,
                   total_scores_added, call, summary, interrupted, results_with_RA>>

FetchOk == \E batch \in Batches : FetchOkStep(batch) /\ UNCHANGED <<replay, pure>>

\* main.py:254-256, get_user_scores answers another status and returns None
FetchErrorStatusStep ==
    /\ pc = "fetch"
    /\ scores' = <<>>
    /\ pc' = NextUserPc
    /\ idx' = NextUserIdx
    /\ UNCHANGED <<loaded, run_start, token, file, origin, existing_hashes, existing_ids,
                   total_scores_added, call, summary, interrupted, results_with_RA>>

FetchErrorStatus == FetchErrorStatusStep /\ UNCHANGED <<replay, pure>>

\* main.py:60, requests.get raises (a network error); nothing in get_user_scores
\* catches it, so it reaches main's except Exception (main.py:275)
FetchRaises ==
    /\ pc = "fetch"
    /\ pc' = "reauth"
    /\ UNCHANGED <<replay, loaded, run_start, pure, idx, token, scores, file, origin, existing_hashes,
                   existing_ids, total_scores_added, call, summary, interrupted,
                   results_with_RA>>

\* a header for every call, whatever the file holds
HeaderDueAlways(f) == TRUE

\* if not file_exists: writer.writeheader() (main.py:176, 195-196)
HeaderDue(f) == ~FileExists(f)

\* process_scores up to the open for append (main.py:119-193)
ProcessScores ==
    /\ pc = "process"
    /\ LET new_scores == NewScores(scores, existing_ids, existing_hashes)
       IN IF new_scores = <<>>
          THEN /\ call' = [NoCall EXCEPT !.start = Len(origin)]
               /\ pc' = "update"
          ELSE /\ call' = [new_scores |-> new_scores,
                           fieldnames |-> Sorted(AllFields(new_scores, file)),
                           new_hashes |-> {generate_score_hash(new_scores[i]) : i \in 1..Len(new_scores)},
                           new_ids |-> {PyStr(Get(new_scores[i], "id")) : i \in 1..Len(new_scores)},
                           header_due |-> HeaderDue(file),
                           written |-> 0,
                           added |-> Len(new_scores),
                           start |-> Len(origin)]
               /\ pc' = "write"
    /\ UNCHANGED <<replay, loaded, run_start, pure, idx, token, scores, file, origin,
                   existing_hashes, existing_ids, total_scores_added, summary,
                   interrupted, results_with_RA>>

\* writer.writeheader() (main.py:195-196)
WriteHeader ==
    /\ pc = "write"
    /\ call.header_due
    /\ file' = Append(file, call.fieldnames)
    /\ call' = [call EXCEPT !.header_due = FALSE]
    /\ UNCHANGED <<replay, loaded, run_start, pure, pc, idx, token, scores, origin,
                   existing_hashes, existing_ids, total_scores_added, summary,
                   interrupted, results_with_RA>>

\* writer.writerows(flat_scores) writes its next row (main.py:197); after the
\* last one the file is closed and process_scores returns
WriteRow ==
    /\ pc = "write"
    /\ ~call.header_due
    /\ LET score == call.new_scores[call.written + 1]
       IN /\ file' = Append(file, DictToList(Flatten(score), call.fieldnames))
          /\ origin' = Append(origin, score)
    /\ call' = [call EXCEPT !.written = call.written + 1]
    /\ pc' = IF call.written + 1 = Len(call.new_scores) THEN "update" ELSE "write"
    /\ UNCHANGED <<replay, loaded, run_start, pure, idx, token, scores, existing_hashes,
                   existing_ids, total_scores_added, summary, interrupted, results_with_RA>>

\* an I/O error while appending (main.py:193-197): the with block closes the
\* file, which keeps what was written, and main's except Exception catches it
WriteRaises ==
    /\ pc = "write"
    /\ pc' = "reauth"
    /\ UNCHANGED <<replay, loaded, run_start, pure, idx, token, scores, file, origin,
                   existing_hashes, existing_ids, total_scores_added, call, summary,
                   interrupted, results_with_RA>>

\* main.py:257-262 after process_scores returned
UpdateLedger ==
    /\ pc = "update"
    /\ existing_hashes' = LedgerUpdate(existing_hashes, call.new_hashes)
    /\ existing_ids' = LedgerUpdate(existing_ids, call.new_ids)
    /\ total_scores_added' = total_scores_added + call.added
    /\ results_with_RA' =
        IF RA \in SeqToSet(scores) /\ results_with_RA < 2 THEN results_with_RA + 1
        ELSE results_with_RA
    /\ scores' = <<>>      \* dead until the next fetch assigns it
    /\ call' = NoCall
    /\ pc' = NextUserPc
    /\ idx' = NextUserIdx
    /\ UNCHANGED <<replay, loaded, run_start, pure, token, file, origin, summary, interrupted>>

\* time.sleep(poll_interval) ends and the while loop starts the next cycle
\* (main.py:251, 269)
Sleep ==
    /\ pc = "sleep"
    /\ idx' = 1
    /\ pc' = "fetch"
    /\ UNCHANGED <<replay, loaded, run_start, pure, token, scores, file, origin, existing_hashes,
                   existing_ids, total_scores_added, call, summary, interrupted,
                   results_with_RA>>

\* KeyboardInterrupt inside the try (main.py:271-273): the summary is printed
InterruptStep ==
    /\ pc \in InTry
    /\ interrupted' = pc
    /\ summary' = total_scores_added
    /\ pc' = "stopped"
    /\ UNCHANGED <<loaded, run_start, idx, token, scores, file, origin,
                   existing_hashes, existing_ids, total_scores_added, call,
                   results_with_RA>>

Interrupt == InterruptStep /\ UNCHANGED <<replay, pure>>

\* KeyboardInterrupt before the try (main.py:239, 246): nothing catches it
InterruptBeforeTry ==
    /\ pc \in {"load", "auth"}
    /\ interrupted' = pc
    /\ pc' = "uncaught"
    /\ UNCHANGED <<replay, loaded, run_start, pure, idx, token, scores, file, origin,
                   existing_hashes, existing_ids, total_scores_added, call, summary,
                   results_with_RA>>

\* KeyboardInterrupt during the token refresh (main.py:280): the bare except
\* catches it and exits with 1 (main.py:281-283)
InterruptInRefresh ==
    /\ pc = "reauth"
    /\ interrupted' = pc
    /\ pc' = "exit1"
    /\ UNCHANGED <<replay, loaded, run_start, pure, idx, token, scores, file, origin,
                   existing_hashes, existing_ids, total_scores_added, call, summary,
                   results_with_RA>>

\* the token refresh succeeds (main.py:280); the except clause ends and main
\* returns
RefreshTokenOk ==
    /\ pc = "reauth"
    /\ token' = token + 1
    /\ pc' = "returned"
    /\ UNCHANGED <<replay, loaded, run_start, pure, idx, scores, file, origin, existing_hashes,
                   existing_ids, total_scores_added, call, summary, interrupted,
                   results_with_RA>>

\* the token refresh fails: sys.exit(1) in get_oauth_token, caught by the bare
\* except, which exits with 1 (main.py:281-283)
RefreshTokenFail ==
    /\ pc = "reauth"
    /\ pc' = "exit1"
    /\ UNCHANGED <<replay, loaded, run_start, pure, idx, token, scores, file, origin,
                   existing_hashes, existing_ids, total_scores_added, call, summary,
                   interrupted, results_with_RA>>

\* the program is started again: a new process, the file as the last run left it
RestartStep ==
    /\ pc \in Terminal
    /\ pc' = "load"
    /\ idx' = 0
    /\ token' = 0
    /\ scores' = <<>>
    /\ existing_hashes' = {}
    /\ existing_ids' = {}
    /\ total_scores_added' = 0
    /\ call' = NoCall
    /\ summary' = -1
    /\ interrupted' = "no"
    /\ results_with_RA' = 0
    /\ loaded' = NoLoad
    /\ run_start' = Len(origin)
    /\ UNCHANGED <<file, origin>>

Restart == RestartStep /\ UNCHANGED <<replay, pure>>

Next ==
    \/ LoadExistingScores
    \/ GetOAuthTokenOk
    \/ GetOAuthTokenFail
    \/ FetchOk
    \/ FetchErrorStatus
    \/ FetchRaises
    \/ ProcessScores
    \/ WriteHeader
    \/ WriteRow
    \/ WriteRaises
    \/ UpdateLedger
    \/ Sleep
    \/ Interrupt
    \/ InterruptBeforeTry
    \/ InterruptInRefresh
    \/ RefreshTokenOk
    \/ RefreshTokenFail
    \/ Restart

Spec == Init /\ [][Next]_vars

----------------------------------------------------------------------------
\* A run over a recorded sequence of fetch responses, stopped between two
\* fetches and started again over the same sequence: the first run records
\* each response, the second is given them in the same order.

RerunFetch ==
    /\ replay.run = 1
    /\ Len(replay.log) < MaxResponses
    /\ \/ \E batch \in Batches :
            /\ FetchOkStep(batch)
            /\ replay' = [replay EXCEPT !.log = Append(@, <<"ok", batch>>)]
       \/ /\ FetchErrorStatusStep
          /\ replay' = [replay EXCEPT !.log = Append(@, <<"error_status", <<>>>>)]
    /\ UNCHANGED pure

RerunReplay ==
    /\ replay.run = 2
    /\ replay.pos < Len(replay.log)
    /\ LET given == replay.log[replay.pos + 1]
       IN \/ given[1] = "ok" /\ FetchOkStep(given[2])
          \/ given[1] = "error_status" /\ FetchErrorStatusStep
    /\ replay' = [replay EXCEPT !.pos = @ + 1]
    /\ UNCHANGED pure

RerunStop ==
    /\ replay.run = 1
    /\ pc \in {"fetch", "sleep"}
    /\ InterruptStep
    /\ UNCHANGED <<replay, pure>>

RerunRestart ==
    /\ replay.run = 1
    /\ RestartStep
    /\ replay' = [replay EXCEPT !.run = 2, !.file1 = file]
    /\ UNCHANGED pure

NextRerun ==
    \/ LoadExistingScores
    \/ GetOAuthTokenOk
    \/ RerunFetch
    \/ RerunReplay
    \/ ProcessScores
    \/ WriteHeader
    \/ WriteRow
    \/ UpdateLedger
    \/ Sleep
    \/ RerunStop
    \/ RerunRestart

SpecRerun == Init /\ [][NextRerun]_vars

----------------------------------------------------------------------------
\* C1: once two fetch results that held the record RA (id 100, user 5,
\* beatmap 9) have been processed in a run, ledger update included, the output
\* file holds exactly one data row for it.
C1_ExactlyOneRow == results_with_RA = 2 => RowCount(RA) = 1

\* C2: in a second run given the first run's fetch responses again, every
\* record is rejected and the file stays what the first run left.
C2_RerunLeavesFile == replay.run = 2 => file = replay.file1

\* the data rows the process_scores call has appended, by the records they
\* were written from
Appended == SubSeq(origin, call.start + 1, Len(origin))

\* C3: when process_scores returns, the rows it appended are those of the
\* fetched records whose str(id) is not in the ledger's ids and whose
\* fingerprint is not in the ledger's fingerprints, the ledger as it was when
\* the call began; it returns the ids and fingerprints of exactly these, and
\* writes nothing for the others.
C3_AcceptedIffNew ==
    pc = "update" =>
        LET accepted ==
                SelectSeq(scores, LAMBDA r :
                    /\ PyStr(Get(r, "id")) \notin existing_ids
                    /\ generate_score_hash(r) \notin existing_hashes)
        IN /\ Appended = accepted
           /\ Len(file) = (IF Len(origin) = 0 THEN 0 ELSE Len(origin) + 1)
           /\ call.new_ids = {PyStr(Get(accepted[i], "id")) : i \in 1..Len(accepted)}
           /\ call.new_hashes = {generate_score_hash(accepted[i]) : i \in 1..Len(accepted)}
           /\ call.added = Len(accepted)

\* a call that accepted a record and dropped another
C3_Witness ==
    /\ pc = "update"
    /\ Appended # <<>>
    /\ Len(Appended) < Len(scores)

\* C4: for every data row of the file, the fingerprint of the record it was
\* written from equals the fingerprint of the row as load_existing_scores
\* reads it back.
C4_FingerprintRoundTrip ==
    (pc = "auth" /\ FileExists(file)) =>
        \A i \in 1..Len(origin) :
            generate_score_hash(origin[i]) = generate_score_hash(DictReaderRows(file)[i])

\* C5: within a run no step removes an element from the ledger's id set or
\* fingerprint set.
C5_LedgerMonotone ==
    [][~(pc \in Terminal /\ pc' = "load")
        => (existing_ids \subseteq existing_ids' /\ existing_hashes \subseteq existing_hashes')]_vars

\* a ledger that grew in this run
C5_Witness ==
    /\ existing_ids # {}
    /\ total_scores_added > 0
    /\ pc \in {"fetch", "sleep"}

\* C6: a fetch that brings no scores to process, because it failed by a
\* non-success response or by a network error, neither ends the process nor
\* triggers reauthentication: the loop goes on to the next subject or to the
\* sleep.
C6_CycleIsolation ==
    [][(pc = "fetch" /\ pc' # "process" /\ interrupted' = interrupted)
        => pc' \in {"fetch", "sleep"}]_vars

\* C7: a reauthentication that obtains a new credential returns the driver to
\* polling.
C7_ReauthResumesPolling ==
    [][(pc = "reauth" /\ token' = token + 1) => pc' = "fetch"]_vars

\* C8: once polling has started, the process ends only by an interrupt or by a
\* failure to obtain a credential.
C8_TerminalPaths ==
    [][(pc \in InTry \cup {"reauth"} /\ pc' \in Terminal)
        => \/ interrupted' # "no" /\ interrupted = "no"
           \/ pc = "reauth" /\ pc' = "exit1" /\ token' = token]_vars

\* C9: an interrupt that arrives during a credential request, a fetch, the
\* processing and write of a batch or the sleep leads to the summary of the total
\* of accepted rows and a clean stop.
C9_CleanCancellation ==
    interrupted \in {"auth", "fetch", "process", "write", "update", "sleep", "reauth"}
        => (pc = "stopped" /\ summary = total_scores_added)

\* C10: whenever no append is in progress, the rows the last process_scores
\* call appended are all the rows of its batch of new records or none.
C10_AtomicBatch ==
    (pc # "write" /\ call.added > 0) => Len(Appended) \in {0, call.added}

\* the text a row written from record r holds for column c
CellOf(r, c) == IF c \in FlatKeys(r) THEN CsvCell(Flatten(r)[c]) ELSE ""

\* C11: the first line of the file is the sorted list of its column names and
\* every data row has one cell per header column, cell j holding the value
\* that the record of the row has for column header[j].
C11_HeaderRowAlignment ==
    FileExists(file) =>
        /\ file[1] = Sorted(SeqToSet(file[1]))
        /\ \A i \in 1..Len(origin) :
              /\ Len(file[i + 1]) = Len(file[1])
              /\ \A j \in 1..Len(file[1]) : file[i + 1][j] = CellOf(origin[i], file[1][j])

\* the sorted union of the column names of the rows of the batch being written
BatchColumns == Sorted(UNION {FlatKeys(call.new_scores[i]) : i \in 1..Len(call.new_scores)})

\* C12: every step leaves the file's old content as a prefix of the new one;
\* a line that is not a data row (a header) is appended only to an absent or
\* empty file and is the sorted union of the batch's column names; every
\* other appended line is one data row of the batch.
C12_AppendOnly ==
    [][ /\ Len(file) <= Len(file')
        /\ SubSeq(file', 1, Len(file)) = file
        /\ (file' # file /\ ~FileExists(file)) =>
              /\ pc = "write"
              /\ file' = <<BatchColumns>>
              /\ origin' = origin
        /\ (file' # file /\ FileExists(file)) =>
              /\ pc = "write"
              /\ Len(file') = Len(file) + 1
              /\ origin' = Append(origin, call.new_scores[call.written + 1])
              /\ Len(file) = Len(origin) + 1
      ]_vars

\* a call on a file that already had rows has appended its rows
C12_Witness == pc = "update" /\ call.start > 0 /\ Len(origin) > call.start

\* C13: the ledger is loaded before the credential is requested (at the
\* request the sets are those of the file, no token was obtained, no user was
\* fetched); a request that brings no token and is not interrupted ends the
\* process with exit status 1, the file untouched and no fetch started; the
\* ended process takes no further step but a new start.
C13_FatalStartupAuth ==
    [][ /\ pc = "load" => (pc' \in {"auth", "uncaught"} /\ token = 0 /\ token' = 0)
        /\ pc = "auth" =>
              /\ existing_ids = LoadedIds(file)
              /\ existing_hashes = LoadedHashes(file)
              /\ token = 0 /\ idx = 0
        /\ pc \in {"load", "auth"} => (file' = file /\ scores' = <<>> /\ call' = NoCall)
        /\ (pc = "auth" /\ token' = token /\ interrupted' = "no") =>
              (pc' = "exit1" /\ idx' = 0)
        /\ pc = "exit1" => pc' = "load"
      ]_vars

\* the first credential request failed in a run that had loaded a ledger
C13_Witness == pc = "exit1" /\ token = 0 /\ interrupted = "no" /\ existing_ids # {}

----------------------------------------------------------------------------
\* Reading the file fails part-way (main.py:95-109): the loop has taken k rows
\* when the reader raises; except Exception prints a warning and the sets
\* built so far are returned.
LoadFails ==
    /\ pc = "load"
    /\ FileExists(file)
    /\ \E k \in 0..(Len(file) - 1) :
          /\ existing_ids' = LoadedIdsUpTo(file, k)
          /\ existing_hashes' = LoadedHashesUpTo(file, k)
          /\ loaded' = [rows |-> k, failed |-> TRUE]
    /\ pc' = "auth"
    /\ UNCHANGED <<replay, run_start, pure, idx, token, scores, file, origin,
                   total_scores_added, call, summary, interrupted, results_with_RA>>

\* KeyboardInterrupt (main.py:271-273) while a batch is written or during the sleep
InterruptWriteOrSleep ==
    /\ pc \in {"write", "sleep"}
    /\ InterruptStep
    /\ UNCHANGED <<replay, pure>>

\* the fetch results of these runs: records with an id, with a further column,
\* and without id
LoadRecords == {RA, RB, RC}

LoadBatches == SeqsUpTo(LoadRecords, MaxBatch)

FetchForLoad == \E batch \in LoadBatches : FetchOkStep(batch) /\ UNCHANGED <<replay, pure>>

\* runs in which the start may meet a file it cannot read to the end
NextLoad ==
    \/ LoadExistingScores
    \/ LoadFails
    \/ GetOAuthTokenOk
    \/ FetchForLoad
    \/ ProcessScores
    \/ WriteHeader
    \/ WriteRow
    \/ UpdateLedger
    \/ Sleep
    \/ InterruptWriteOrSleep
    \/ Restart

SpecLoad == Init /\ [][NextLoad]_vars

\* the position of the id column in the header of f, 0 if there is none
IdColumn(f) ==
    IF \E p \in 1..Len(f[1]) : f[1][p] = "id"
    THEN CHOOSE p \in 1..Len(f[1]) : f[1][p] = "id"
    ELSE 0

\* C14: the load always goes on to the credential request and leaves the file
\* as it is; an absent or empty file gives two empty sets; a reading that
\* fails gives the sets of the rows taken before the failure, a reading that
\* does not fail takes every row; of each row taken, the id cell is in the id
\* set only if the header has an id column and the cell is there and not
\* empty, and the row's fingerprint is in the fingerprint set.
C14_RecoverableLoad ==
    [][ pc = "load" =>
          /\ pc' = "auth"
          /\ file' = file
          /\ ~FileExists(file) =>
                (existing_ids' = {} /\ existing_hashes' = {} /\ loaded'.rows = 0)
          /\ FileExists(file) =>
                /\ loaded'.rows \in 0..(Len(file) - 1)
                /\ ~loaded'.failed => loaded'.rows = Len(file) - 1
                /\ existing_ids' =
                      {file[i + 1][IdColumn(file)] :
                          i \in {j \in 1..loaded'.rows :
                                    /\ IdColumn(file) \in 1..Len(file[j + 1])
                                    /\ file[j + 1][IdColumn(file)] # ""}}
                /\ existing_hashes' =
                      {generate_score_hash(DictReaderRow(file[1], file[i + 1])) :
                          i \in 1..loaded'.rows}
      ]_vars

\* a reading failed after some rows and before the last, one of them without id
C14_Witness ==
    /\ pc = "auth"
    /\ loaded.failed
    /\ loaded.rows \in 1..(Len(file) - 2)
    /\ Cardinality(existing_ids) < loaded.rows

----------------------------------------------------------------------------
\* The flattening step alone (main.py:153-173), over records with some
\* top-level scalar fields, a nested user or none, and a list of mods.
ScalarFields == [id |-> IntV(1), user_id |-> IntV(5), pp |-> StrV("1.5")]
UserFields == [id |-> IntV(5), username |-> StrV("x")]
Mods == {DictV([acronym |-> StrV("HD")]), DictV([acronym |-> StrV("DT")])}

Restrict(f, S) == [k \in S |-> f[k]]

FlatRecords ==
    {[k \in top \cup {"mods"} |->
          IF k = "mods" THEN ListV(mods) ELSE ScalarFields[k]]
        : top \in SUBSET DOMAIN ScalarFields, mods \in SeqsUpTo(Mods, MaxMods)}
    \cup
    {[k \in top \cup {"user", "mods"} |->
          IF k = "mods" THEN ListV(mods)
          ELSE IF k = "user" THEN DictV(Restrict(UserFields, sub))
          ELSE ScalarFields[k]]
        : top \in SUBSET DOMAIN ScalarFields, sub \in SUBSET DOMAIN UserFields,
          mods \in SeqsUpTo(Mods, MaxMods)}

InitFlatten ==
    /\ pc = "flatten"
    /\ idx = 0
    /\ token = 0
    /\ scores = <<>>
    /\ file = <<>>
    /\ origin = <<>>
    /\ existing_hashes = {}
    /\ existing_ids = {}
    /\ total_scores_added = 0
    /\ call = NoCall
    /\ summary = -1
    /\ interrupted = "no"
    /\ results_with_RA = 0
    /\ replay = NoReplay
    /\ loaded = NoLoad
    /\ run_start = 0
    /\ pure \in {[stage |-> "given", record |-> r, row |-> <<>>] : r \in FlatRecords}

\* the body of `for score in new_scores` (main.py:153-173) on the record given
FlattenStep ==
    /\ pc = "flatten"
    /\ pure.stage = "given"
    /\ pure' = [pure EXCEPT !.stage = "done", !.row = Flatten(pure.record)]
    /\ UNCHANGED <<pc, idx, token, scores, file, origin, existing_hashes, existing_ids,
                   total_scores_added, call, summary, interrupted, results_with_RA,
                   replay, loaded, run_start>>

NextFlatten == FlattenStep

SpecFlatten == InitFlatten /\ [][NextFlatten]_vars

\* N: the top-level fields that are neither nested mappings nor the mods list
ScalarCount(r) == Cardinality({k \in DOMAIN r : ~IsDict(r[k]) /\ ~IsList(r[k])})

\* the sum of k_i over the nested mappings whose names are in keys
RECURSIVE SubkeyCount(_, _)
SubkeyCount(r, keys) ==
    IF keys = {} THEN 0
    ELSE LET k == CHOOSE x \in keys : TRUE
         IN (IF IsDict(r[k]) THEN Cardinality(DOMAIN r[k][2]) ELSE 0)
                + SubkeyCount(r, keys \ {k})

\* C15: the row flattened from a record with N top-level scalar fields, nested
\* mappings of k_i subkeys and one list of mods has exactly N + sum k_i + 1
\* columns, and an empty list of mods gives the mods column the empty string.
C15_ColumnCount ==
    pure.stage = "done" =>
        /\ Cardinality(DOMAIN pure.row) =
              ScalarCount(pure.record) + SubkeyCount(pure.record, DOMAIN pure.record) + 1
        /\ pure.record["mods"] = ListV(<<>>) => pure.row["mods"] = StrV("")

\* C16: a fetch is issued for the first user only at the start of the loop or
\* after the sleep that ends a cycle, and for every other user only after the
\* fetch or the ledger update of the user before it in the list; the sleep is
\* reached only after the last user; while a user's result is processed and
\* written the loop stays at that user, and no call of the writer is open
\* when a fetch or the sleep begins.
C16_Ordering ==
    [][ /\ (pc' = "fetch" /\ (pc # "fetch" \/ idx' # idx)) =>
              \/ pc = "auth" /\ idx' = 1
              \/ pc = "sleep" /\ idx = Len(users) /\ idx' = 1
              \/ pc \in {"fetch", "update"} /\ idx < Len(users) /\ idx' = idx + 1
        /\ (pc' = "sleep" /\ pc # "sleep") =>
              (pc \in {"fetch", "update"} /\ idx = Len(users) /\ idx' = idx)
        /\ pc' \in {"fetch", "sleep"} => call' = NoCall
        /\ (pc \in {"process", "write", "update"} /\ pc' \in {"process", "write", "update"}) =>
              idx' = idx
        /\ (pc = "fetch" /\ pc' = "process") => idx' = idx
      ]_vars

\* a second cycle begins after a cycle that wrote rows
C16_Witness == pc = "fetch" /\ idx = 1 /\ total_scores_added > 0

C18_NoDuplicateIds ==
    \A i, j \in 1..Len(origin) :
        (i # j /\ "id" \in DOMAIN origin[i] /\ "id" \in DOMAIN origin[j]) =>
            PyStr(origin[i]["id"]) # PyStr(origin[j]["id"])

----------------------------------------------------------------------------
\* Runs whose fetch results hold two records with different ids and user ids
\* whose four identity fields, written one after the other, read the same.
RX == [id |-> IntV(1), user_id |-> IntV(23), beatmap_id |-> IntV(9), created_at |-> CreatedAt]
RY == [id |-> IntV(12), user_id |-> IntV(3), beatmap_id |-> IntV(9), created_at |-> CreatedAt]

CollideRecords == {RX, RY}

CollideBatches == SeqsUpTo(CollideRecords, MaxBatch)

FetchCollide == \E batch \in CollideBatches : FetchOkStep(batch) /\ UNCHANGED <<replay, pure>>

NextCollide ==
    \/ LoadExistingScores
    \/ GetOAuthTokenOk
    \/ FetchCollide
    \/ ProcessScores
    \/ WriteHeader
    \/ WriteRow
    \/ UpdateLedger
    \/ Sleep
    \/ Interrupt
    \/ Restart

SpecCollide == Init /\ [][NextCollide]_vars

\* the identity tuple of a record, each field as its text
IdentityTuple(r) ==
    <<PyStr(Get(r, "id")), PyStr(Get(r, "user_id")),
      PyStr(Get(r, "beatmap_id")), PyStr(Get(r, "created_at"))>>

\* C19: when a call of process_scores is done, every record of the fetch
\* result whose identity tuple differs from that of every row the file held
\* before the call and of every earlier record of the result has been
\* appended.
C19_NoFalseRejection ==
    pc = "update" =>
        \A i \in 1..Len(scores) :
            ( /\ \A j \in 1..call.start : IdentityTuple(origin[j]) # IdentityTuple(scores[i])
              /\ \A k \in 1..(i - 1) : IdentityTuple(scores[k]) # IdentityTuple(scores[i]) )
            => scores[i] \in SeqToSet(Appended)

\* C20: the total printed by the interrupt summary is the number of data rows
\* the run has appended to the file.
C20_SummaryAccuracy ==
    pc = "stopped" => summary = Len(origin) - run_start

====
